---- MODULE Spec2Model ----
(***************************************************************************)
(* State-machine model of static/script_with_api.js, the browser client    *)
(* of the face-mask detector: the upload / camera / monitoring capture     *)
(* sources, the detection client processImageWithAPI with its simulation   *)
(* fallback, the statistics fold and the monitoring countdown scheduler.   *)
(*                                                                         *)
(* The page is single threaded: every action below is one run-to-          *)
(* completion callback of the event loop (a click handler, a timer         *)
(* callback, the continuation of an await).                                *)
(***************************************************************************)
EXTENDS Integers, Sequences, FiniteSets, TLC

----------------------------------------------------------------------------
(* Bounds of the exploration (not program constants).                      *)

\* the interval menu offers 1..MaxInterval seconds
MaxInterval == 2
\* setInterval timers created over a run
MaxTimers == 3
\* MediaStreams handed out by getUserMedia over a run
MaxStreams == 2
\* processImageWithAPI invocations over a run
MaxCalls == 2
\* detections in one backend response
MaxDets == 1
\* files in one upload batch
MaxFiles == 2
\* detections in a list handed to calculateStatsFromDetections on its own
MaxLen == 3
\* widest and highest image, in pixels, handed to createCroppedFaces
MaxDim == 3

----------------------------------------------------------------------------
(* Values.                                                                 *)

\* JavaScript null / undefined for a value that is otherwise v: <<>> or <<v>>
Undefined == << >>

Some(v) == <<v>>

IsDefined(m) == Len(m) > 0

\* script_with_api.js:233, the classes the simulation draws from
classes == <<"with_mask", "without_mask", "mask_weared_incorrect">>

KnownClasses == {classes[i] : i \in 1..Len(classes)}

\* labels a backend response may carry: the known ones and one foreign label
ApiClasses == KnownClasses \cup {"other_label"}

\* script_with_api.js:229, Math.floor(Math.random() * 4): 0..SimSpan-1
SimSpan == 4

\* script_with_api.js:689, the settling delay of the re-arm, in seconds
RearmDelay == 2

Intervals == 1..MaxInterval

ZeroStats == [with_mask |-> 0, without_mask |-> 0, mask_weared_incorrect |-> 0]

ZeroTotals == [withMask |-> 0, withoutMask |-> 0, incorrectMask |-> 0]

\* A mutation of calculateStatsFromDetections: the switch has a default
\* branch that counts a foreign label as with_mask.
RECURSIVE calculateStatsFromDetectionsDefault(_)
calculateStatsFromDetectionsDefault(detections) ==
    IF detections = << >> THEN ZeroStats
    ELSE LET rest == calculateStatsFromDetectionsDefault(Tail(detections))
             c == Head(detections).class
         IN  CASE c = "without_mask" ->
                    [rest EXCEPT !.without_mask = @ + 1]
               [] c = "mask_weared_incorrect" ->
                    [rest EXCEPT !.mask_weared_incorrect = @ + 1]
               [] OTHER -> [rest EXCEPT !.with_mask = @ + 1]

\* script_with_api.js:252-270
RECURSIVE calculateStatsFromDetections(_)
calculateStatsFromDetections(detections) ==
    IF detections = << >> THEN ZeroStats
    ELSE LET rest == calculateStatsFromDetections(Tail(detections))
             c == Head(detections).class
         IN  CASE c = "with_mask" ->
                    [rest EXCEPT !.with_mask = @ + 1]
               [] c = "without_mask" ->
                    [rest EXCEPT !.without_mask = @ + 1]
               [] c = "mask_weared_incorrect" ->
                    [rest EXCEPT !.mask_weared_incorrect = @ + 1]
               [] OTHER -> rest

\* A mutation of simulateYOLODetection: Math.floor(Math.random() * 4) + 2,
\* and the class index taken one place too far.
simulateYOLODetectionOffByOne(rnd) ==
    [i \in 1..(rnd.n + 2) |->
        [class |-> IF i <= Len(rnd.cls) /\ rnd.cls[i] + 1 <= Len(classes)
                   THEN classes[rnd.cls[i] + 1] ELSE "other_label"]]

\* script_with_api.js:228-249. rnd.n is Math.floor(Math.random() * 4) and
\* rnd.cls[i] is Math.floor(Math.random() * classes.length) of round i.
\* Confidence and bounding box do not reach any state the model keeps.
simulateYOLODetection(rnd) ==
    [i \in 1..(rnd.n + 1) |-> [class |-> classes[rnd.cls[i] + 1]]]

\* every outcome of the random draws of one simulateYOLODetection call
SimDraws ==
    UNION {{[n |-> k, cls |-> s] : s \in [1..(k + 1) -> 0..(Len(classes) - 1)]}
           : k \in 0..(SimSpan - 1)}

\* A mutation of updateTotalStats: assignment instead of +=.
updateTotalStatsAssign(total, stats) ==
    [withMask |-> stats.withMask,
     withoutMask |-> stats.withoutMask,
     incorrectMask |-> stats.incorrectMask]

\* script_with_api.js:330-334
updateTotalStats(total, stats) ==
    [withMask |-> total.withMask + stats.withMask,
     withoutMask |-> total.withoutMask + stats.withoutMask,
     incorrectMask |-> total.incorrectMask + stats.incorrectMask]

\* A mutation of the batch fold: only the first result is counted.
batchStatsFirst(results) ==
    IF results = << >> \/ ~IsDefined(Head(results).stats) THEN ZeroTotals
    ELSE [withMask |-> Head(results).stats[1].with_mask,
          withoutMask |-> Head(results).stats[1].without_mask,
          incorrectMask |-> Head(results).stats[1].mask_weared_incorrect]

\* script_with_api.js:279-287 (the same fold at 560-568 and 734-742): the
\* batch statistics of a list of results; a result without stats adds 0.
RECURSIVE batchStats(_)
batchStats(results) ==
    IF results = << >> THEN ZeroTotals
    ELSE LET rest == batchStats(Tail(results))
             r == Head(results)
         IN  IF IsDefined(r.stats)
             THEN [withMask |-> rest.withMask + r.stats[1].with_mask,
                   withoutMask |-> rest.withoutMask + r.stats[1].without_mask,
                   incorrectMask |->
                       rest.incorrectMask + r.stats[1].mask_weared_incorrect]
             ELSE rest

----------------------------------------------------------------------------
(* Files and backend responses: the inputs of the detection client.        *)

\* A File: its content type as <<type, subtype>> and whether FileReader and
\* Image can read and decode its content.
JpegFile == [type |-> <<"image", "jpeg">>, decodable |-> TRUE]

CorruptFile == [type |-> <<"image", "jpeg">>, decodable |-> FALSE]

TextFile == [type |-> <<"text", "plain">>, decodable |-> FALSE]

Files == {JpegFile, CorruptFile, TextFile}

\* script_with_api.js:123, file.type.startsWith('image/')
IsImage(file) == file.type[1] = "image"

\* script_with_api.js:122-124, Array.from(files).filter(...)
validFiles(files) == SelectSeq(files, IsImage)

FileBatches == UNION {[1..k -> Files] : k \in 0..MaxFiles}

\* detection lists a backend may answer with
ApiDetections ==
    UNION {[1..k -> [class : ApiClasses]] : k \in 0..MaxDets}

\* One settled fetch of POST /detect. kind: "neterr" (fetch rejects), "http"
\* (response.ok is false), "badjson" (response.json() rejects) or "json" (a
\* parsed body, whose fields follow).
Response(kind, success, detections, stats) ==
    [kind |-> kind, success |-> success, detections |-> detections,
     stats |-> stats, result_image |-> Some("result_image"),
     total_detections |-> Undefined]

\* a response of the documented shape: stats counts the known classes
WellFormed(dets) ==
    [Response("json", TRUE, Some(dets),
              Some(calculateStatsFromDetections(dets)))
        EXCEPT !.total_detections = Some(Len(dets))]

GoodResponses == {WellFormed(d) : d \in ApiDetections}

\* success:true bodies that lack detections, stats, or both
MalformedResponses ==
    LET d == <<[class |-> "without_mask"]>>
    IN  {Response("json", TRUE, Undefined, Some(calculateStatsFromDetections(d))),
         Response("json", TRUE, Some(d), Undefined),
         Response("json", TRUE, Undefined, Undefined)}

FailedResponses ==
    {Response("neterr", FALSE, Undefined, Undefined),
     Response("http", FALSE, Undefined, Undefined),
     Response("badjson", FALSE, Undefined, Undefined),
     Response("json", FALSE, Undefined, Undefined)}

Responses == GoodResponses \cup MalformedResponses \cup FailedResponses

NoValue(file) ==
    [file |-> file, detections |-> Undefined, stats |-> Undefined,
     resultImage |-> Undefined, totalDetections |-> Undefined]

\* A mutation of processImageWithAPI: no catch clause, the error of a failed
\* request reaches the caller.
processImageWithAPINoCatch(file, resp) ==
    IF resp.kind = "json" /\ resp.success
    THEN [outcome |-> "return",
          value |-> [file |-> file,
                     detections |-> resp.detections,
                     stats |-> resp.stats,
                     resultImage |-> resp.result_image,
                     totalDetections |-> resp.total_detections]]
    ELSE [outcome |-> "throw", value |-> NoValue(file)]

\* A mutation of processImageWithAPI: the catch clause sends the request
\* again instead of falling back.
processImageWithAPIRetry(file, resp) ==
    IF resp.kind = "json" /\ resp.success
    THEN [outcome |-> "return",
          value |-> [file |-> file,
                     detections |-> resp.detections,
                     stats |-> resp.stats,
                     resultImage |-> resp.result_image,
                     totalDetections |-> resp.total_detections]]
    ELSE [outcome |-> "retry", value |-> NoValue(file)]

\* script_with_api.js:153-186, what the function does with a settled fetch.
\* outcome "return": the value returned at 168-174; outcome "catch": the
\* errors of 159, 165, 176 and 179 all land in the catch clause at 181,
\* which awaits processImageSimulation (184). No path lets an error out
\* (outcome "throw") and none reaches the fetch of 159 a second time
\* (outcome "retry").
processImageWithAPI(file, resp) ==
    IF resp.kind = "json" /\ resp.success
    THEN [outcome |-> "return",
          value |-> [file |-> file,
                     detections |-> resp.detections,
                     stats |-> resp.stats,
                     resultImage |-> resp.result_image,
                     totalDetections |-> resp.total_detections]]
    ELSE [outcome |-> "catch", value |-> NoValue(file)]

\* script_with_api.js:189-225, the value the promise resolves with in
\* img.onload (194-219).
processImageSimulation(file, rnd) ==
    LET detections == simulateYOLODetection(rnd)
    IN  [file |-> file,
         detections |-> Some(detections),
         stats |-> Some(calculateStatsFromDetections(detections)),
         resultImage |-> Some("canvas.toDataURL"),
         totalDetections |-> Some(Len(detections))]

----------------------------------------------------------------------------
(* State.                                                                  *)

VARIABLES
    \* script_with_api.js:2-11, the globals
    currentStream,        \* 0 (null) or the index of a stream in streams
    monitoringInterval,   \* 0 (null); never assigned by the script
    monitoringCountdown,  \* 0 (null) or the id of a setInterval timer
    monitoringActive,
    captureCount,
    totalStats,
    \* script_with_api.js:916-921 (processingTimes is not kept: one entry is
    \* pushed whenever totalImages is incremented)
    performanceMetrics,
    \* the DOM the script reads back
    videoStream,          \* #videoStream.srcObject: 0 or a stream
    monitoringVideo,      \* #monitoringVideo.srcObject: 0 or a stream
    nextCaptureTime,      \* #nextCaptureTime.textContent
    loadingOverlay,       \* #loadingOverlay is displayed
    \* the browser
    streams,              \* MediaStreams handed out, by index
    timers,               \* setInterval timers, by id
    timeouts,             \* pending setTimeout(..., 2000) re-arms
    gum,                  \* whether the browser has getUserMedia, its
                          \* promises not yet settled, by mode, and the
                          \* fetch of /health not yet settled
    procs,                \* async callbacks suspended at an await
    \* what the last step put out (history, not read by any action)
    emitted,              \* the showAlert calls of the last step, in order
    lastResult,           \* the value processImageWithAPI returned in it
    lastBatch,            \* the batch statistics folded in it
    before,               \* captureCount and totalStats before it
    applied,              \* a function applied on its own: inputs and value
    delivered             \* the class counts of every result handed to a caller

globals ==
    <<currentStream, monitoringInterval, monitoringCountdown, monitoringActive,
      captureCount, totalStats, performanceMetrics>>

dom == <<videoStream, monitoringVideo, nextCaptureTime, loadingOverlay>>

browser == <<streams, timers, timeouts, gum, procs>>

history == <<emitted, lastResult, lastBatch, before, applied, delivered>>

vars == <<globals, dom, browser, history>>

Idle == [text |-> "-", n |-> 0]

Capturing == [text |-> "Capturing...", n |-> 0]

Seconds(n) == [text |-> "s", n |-> n]

Alert(type, text, n) == [type |-> type, text |-> text, n |-> n]

\* 795-815: showAlert removes every .alert-badge of the document (797) and
\* appends the new one (815)
showAlert(badges, alert) == <<alert>>

\* the badges of the document after a handler has called showAlert for each
\* of alerts in turn
RECURSIVE alertBadges(_, _)
alertBadges(badges, alerts) ==
    IF alerts = << >> THEN badges
    ELSE alertBadges(showAlert(badges, Head(alerts)), Tail(alerts))

Log(alerts, result, batch) ==
    /\ emitted' = alerts
    /\ lastResult' = result
    /\ lastBatch' = batch
    /\ before' = [captureCount |-> captureCount, totalStats |-> totalStats]
    /\ delivered' =
          IF IsDefined(result) /\ result[1].via # "rejected"
          THEN [withMask |-> delivered.withMask
                                + batchStats(<<result[1].value>>).withMask,
                withoutMask |-> delivered.withoutMask
                                + batchStats(<<result[1].value>>).withoutMask,
                incorrectMask |-> delivered.incorrectMask
                                + batchStats(<<result[1].value>>).incorrectMask]
          ELSE delivered
    /\ UNCHANGED applied

Remove(seq, i) == SubSeq(seq, 1, i - 1) \o SubSeq(seq, i + 1, Len(seq))

\* The page once its DOMContentLoaded handler (17-21) has run: the globals
\* as declared (2-11), the alert of checkCameraSupport (78-88) in a browser
\* without getUserMedia, and checkServerConnection waiting for its fetch of
\* /health (26).
Init ==
    /\ currentStream = 0
    /\ monitoringInterval = 0
    /\ monitoringCountdown = 0
    /\ monitoringActive = FALSE
    /\ captureCount = 0
    /\ totalStats = ZeroTotals
    /\ performanceMetrics = [apiCalls |-> 0, apiErrors |-> 0, totalImages |-> 0]
    /\ videoStream = 0
    /\ monitoringVideo = 0
    /\ nextCaptureTime = Idle
    /\ loadingOverlay = FALSE
    /\ streams = << >>
    /\ timers = << >>
    /\ timeouts = << >>
    /\ gum \in [supported : BOOLEAN, camera : {0}, monitoring : {0},
               health : {1}]
    /\ procs = << >>
    /\ emitted = IF gum.supported THEN << >>
                 ELSE <<Alert("error", "Camera not supported in this browser", 0)>>
    /\ lastResult = Undefined
    /\ lastBatch = Undefined
    /\ before = [captureCount |-> 0, totalStats |-> ZeroTotals]
    /\ applied = [op |-> "none"]
    /\ delivered = ZeroTotals

----------------------------------------------------------------------------
(* The browser's streams and timers.                                       *)

\* stream.getTracks().forEach(track => track.stop()) on stream s (0: none)
StopTracks(ss, s) == IF s = 0 THEN ss ELSE [ss EXCEPT ![s].live = FALSE]

\* clearInterval(id): a cleared timer never fires again; 0 and the id of a
\* timer already cleared are ignored.
clearInterval(ts, id) ==
    IF id = 0 THEN ts ELSE [ts EXCEPT ![id].alive = FALSE, ![id].due = FALSE]

\* The frame canvas.toBlob() yields from a video element. With no srcObject
\* videoWidth and videoHeight are 0, the canvas is 0x0 (531, 532), the blob
\* is null and the File holds no image. An element with a stream yields a
\* JPEG once a frame has arrived; until then (the first frame of a live
\* stream is still to come), and possibly on a stopped stream, it is as
\* empty as one without a stream.
Frames(video) ==
    IF video = 0 THEN {CorruptFile}
    ELSE {JpegFile, CorruptFile}

\* an async callback suspended in the event loop; batch is history: the
\* files processFiles was called with; fetches is history: the requests the
\* processImageWithAPI call in progress has sent to /detect (159)
Proc(kind, pc, file, todo) ==
    [kind |-> kind, pc |-> pc, file |-> file, todo |-> todo,
     results |-> << >>, request |-> "", stale |-> FALSE, batch |-> << >>,
     fetches |-> IF pc = "fetch" THEN 1 ELSE 0]

\* processImageWithAPI calls the operations in flight will still issue: one
\* for a toBlob callback still to run (541, 716), one for each file an
\* upload has left (137-139), unless its loop is suspended for ever on a
\* fallback that cannot decode its file (189-225 sets no onerror)
Reserved ==
    LET Stuck(p) == \/ p.pc = "hung"
                    \/ p.pc = "sim" /\ ~p.file.decodable
        RECURSIVE Sum(_)
        Sum(ps) == IF ps = << >> THEN 0
                   ELSE (IF Head(ps).pc = "blob" THEN 1 ELSE 0)
                        + (IF Stuck(Head(ps)) THEN 0 ELSE Len(Head(ps).todo))
                        + Sum(Tail(ps))
    IN  Sum(procs)

\* room for k more processImageWithAPI calls within MaxCalls
Budget(k) == performanceMetrics.apiCalls + Reserved + k <= MaxCalls

----------------------------------------------------------------------------
(* The monitoring scheduler, script_with_api.js:673-725. The scheduler     *)
(* state a callback rewrites is passed as a record w: timers, timeouts,    *)
(* procs, mc (monitoringCountdown) and nct (nextCaptureTime).              *)

Sched ==
    [timers |-> timers, timeouts |-> timeouts, procs |-> procs,
     mc |-> monitoringCountdown, nct |-> nextCaptureTime]

\* A mutation of updateCountdown: the capture is triggered at countdown 1.
updateCountdownEarly(w, i, active, frame) ==
    IF ~active THEN w
    ELSE IF w.timers[i].countdown <= 1
    THEN [w EXCEPT
            !.nct = Capturing,
            !.timers = [clearInterval(@, w.mc) EXCEPT
                            ![i].caps = @ + 1,
                            ![i].staleCaps =
                                @ + (IF w.timers[i].stale THEN 1 ELSE 0)],
            !.procs = Append(@, Proc("monitoring", "blob", frame, << >>)),
            !.timeouts = Append(@, [remaining |-> RearmDelay,
                                    interval |-> w.timers[i].interval,
                                    stale |-> FALSE])]
    ELSE [w EXCEPT !.nct = Seconds(w.timers[i].countdown),
                   !.timers[i].countdown = @ - 1]

\* script_with_api.js:679-693, the closure updateCountdown of the countdown
\* whose variables are timers[i]; 687 runs captureMonitoringPhoto (699-725)
\* up to its canvas.toBlob, whose callback is the new proc. caps counts the
\* captures the countdown has triggered (history).
updateCountdown(w, i, active, frame) ==
    IF ~active THEN w
    ELSE IF w.timers[i].countdown <= 0
    THEN [w EXCEPT
            !.nct = Capturing,
            !.timers = [clearInterval(@, w.mc) EXCEPT
                            ![i].caps = @ + 1,
                            ![i].staleCaps =
                                @ + (IF w.timers[i].stale THEN 1 ELSE 0)],
            !.procs = Append(@, Proc("monitoring", "blob", frame, << >>)),
            !.timeouts = Append(@, [remaining |-> RearmDelay,
                                    interval |-> w.timers[i].interval,
                                    stale |-> FALSE])]
    ELSE [w EXCEPT !.nct = Seconds(w.timers[i].countdown),
                   !.timers[i].countdown = @ - 1]

\* script_with_api.js:673-697. The closure is created first (676), run once
\* (695) and then registered with setInterval (696). origin is history: ""
\* for a countdown started by startMonitoring, "rearm" for one started by
\* the re-arm timeout, "stale-rearm" when that timeout was created before a
\* stopMonitoring.
scheduleNextCapture(w, intervalSeconds, active, frame, origin) ==
    IF ~active THEN w
    ELSE LET i == Len(w.timers) + 1
             w1 == [w EXCEPT !.timers =
                        Append(@, [alive |-> FALSE, due |-> FALSE,
                                   countdown |-> intervalSeconds,
                                   interval |-> intervalSeconds,
                                   ticks |-> 0, caps |-> 0,
                                   stale |-> FALSE, staleCaps |-> 0,
                                   origin |-> origin])]
             w2 == updateCountdown(w1, i, active, frame)
         IN  [w2 EXCEPT !.timers[i].alive = TRUE, !.mc = i]

SetSched(w) ==
    /\ timers' = w.timers
    /\ timeouts' = w.timeouts
    /\ procs' = w.procs
    /\ monitoringCountdown' = w.mc
    /\ nextCaptureTime' = w.nct

\* history: stopMonitoring ran after these timers, timeouts and monitoring
\* captures were created
MarkStaleTimers(ts) == [i \in DOMAIN ts |-> [ts[i] EXCEPT !.stale = TRUE]]

MarkStaleProcs(ps) ==
    [i \in DOMAIN ps |->
        IF ps[i].kind = "monitoring" THEN [ps[i] EXCEPT !.stale = TRUE]
        ELSE ps[i]]

----------------------------------------------------------------------------
(* Camera mode, script_with_api.js:487-551.                                *)

\* 487-489: startCamera up to its await of getUserMedia; without
\* getUserMedia the call itself throws and the catch (503-506) runs at once
StartCamera ==
    /\ IF gum.supported
       THEN /\ Len(streams) + gum.camera + gum.monitoring < MaxStreams
            /\ gum' = [gum EXCEPT !.camera = @ + 1]
            /\ Log(<< >>, Undefined, Undefined)
       ELSE /\ UNCHANGED gum
            /\ Log(<<Alert("error", "Error accessing camera", 0)>>,
                   Undefined, Undefined)
    /\ UNCHANGED <<globals, dom, streams, timers, timeouts, procs>>

\* 493-502: getUserMedia resolved
CameraGranted ==
    /\ gum.camera > 0
    /\ gum' = [gum EXCEPT !.camera = @ - 1]
    /\ streams' = Append(streams, [live |-> TRUE, by |-> "camera"])
    /\ currentStream' = Len(streams) + 1
    /\ videoStream' = Len(streams) + 1
    /\ Log(<<Alert("success", "Camera started successfully", 0)>>,
           Undefined, Undefined)
    /\ UNCHANGED <<monitoringInterval, monitoringCountdown, monitoringActive,
                   captureCount, totalStats, performanceMetrics,
                   monitoringVideo, nextCaptureTime, loadingOverlay,
                   timers, timeouts, procs>>

\* 503-506: getUserMedia rejected
CameraDenied ==
    /\ gum.camera > 0
    /\ gum' = [gum EXCEPT !.camera = @ - 1]
    /\ Log(<<Alert("error", "Error accessing camera", 0)>>,
           Undefined, Undefined)
    /\ UNCHANGED <<globals, dom, streams, timers, timeouts, procs>>

\* 509-524
StopCamera ==
    /\ streams' = StopTracks(streams, currentStream)
    /\ currentStream' = 0
    /\ videoStream' = IF currentStream # 0 THEN 0 ELSE videoStream
    /\ Log(<<Alert("info", "Camera stopped", 0)>>,
           Undefined, Undefined)
    /\ UNCHANGED <<monitoringInterval, monitoringCountdown, monitoringActive,
                   captureCount, totalStats, performanceMetrics,
                   monitoringVideo, nextCaptureTime, loadingOverlay,
                   timers, timeouts, gum, procs>>

\* 526-538: capturePhoto up to canvas.toBlob, whose callback is the new proc
CapturePhoto ==
    /\ Budget(1)
    /\ \E frame \in Frames(videoStream) :
          procs' = Append(procs, Proc("camera", "blob", frame, << >>))
    /\ Log(<< >>, Undefined, Undefined)
    /\ UNCHANGED <<globals, dom, streams, timers, timeouts, gum>>

----------------------------------------------------------------------------
(* Monitoring mode, script_with_api.js:605-671 and 832-841.                *)

\* 605-612: startMonitoring up to its await of getUserMedia; without
\* getUserMedia the call itself throws and the catch (634-638) runs at once
StartMonitoring ==
    IF monitoringActive
    THEN /\ Log(<< >>, Undefined, Undefined)
         /\ UNCHANGED <<globals, dom, browser>>
    ELSE IF gum.supported
    THEN /\ Len(streams) + gum.camera + gum.monitoring < MaxStreams
         /\ gum' = [gum EXCEPT !.monitoring = @ + 1]
         /\ Log(<< >>, Undefined, Undefined)
         /\ UNCHANGED <<globals, dom, streams, timers, timeouts, procs>>
    ELSE /\ monitoringActive' = FALSE
         /\ Log(<<Alert("error", "Error starting monitoring", 0)>>,
                Undefined, Undefined)
         /\ UNCHANGED <<currentStream, monitoringInterval, monitoringCountdown,
                        captureCount, totalStats, performanceMetrics, dom,
                        browser>>

\* 614-632: getUserMedia resolved; intervalSeconds is read from the select
\* element at this point
MonitoringGranted(intervalSeconds) ==
    /\ gum.monitoring > 0
    /\ Len(timers) < MaxTimers
    /\ gum' = [gum EXCEPT !.monitoring = @ - 1]
    /\ streams' = Append(streams, [live |-> TRUE, by |-> "monitoring"])
    /\ currentStream' = Len(streams) + 1
    /\ monitoringVideo' = Len(streams) + 1
    /\ monitoringActive' = TRUE
    /\ captureCount' = 0
    /\ SetSched(scheduleNextCapture(Sched, intervalSeconds, TRUE, JpegFile, ""))
    /\ Log(<<Alert("success", "Automatic monitoring started", 0)>>,
           Undefined, Undefined)
    /\ UNCHANGED <<monitoringInterval, totalStats, performanceMetrics,
                   videoStream, loadingOverlay>>

\* A mutation of the catch clause of startMonitoring: monitoringActive is
\* left as it is.
MonitoringDeniedNoReset ==
    /\ gum.monitoring > 0
    /\ gum' = [gum EXCEPT !.monitoring = @ - 1]
    /\ Log(<<Alert("error", "Error starting monitoring", 0)>>,
           Undefined, Undefined)
    /\ UNCHANGED <<globals, dom, streams, timers, timeouts, procs>>

\* 634-638: getUserMedia rejected
MonitoringDenied ==
    /\ gum.monitoring > 0
    /\ gum' = [gum EXCEPT !.monitoring = @ - 1]
    /\ monitoringActive' = FALSE
    /\ Log(<<Alert("error", "Error starting monitoring", 0)>>,
           Undefined, Undefined)
    /\ UNCHANGED <<currentStream, monitoringInterval, monitoringCountdown,
                   captureCount, totalStats, performanceMetrics, dom,
                   streams, timers, timeouts, procs>>

\* 641-671, the body of stopMonitoring
stopMonitoring ==
    /\ monitoringActive' = FALSE
    /\ monitoringInterval' = 0
    /\ timers' = MarkStaleTimers(clearInterval(timers, monitoringCountdown))
    /\ monitoringCountdown' = 0
    /\ streams' = StopTracks(streams, currentStream)
    /\ currentStream' = 0
    /\ monitoringVideo' = 0
    /\ nextCaptureTime' = Idle
    /\ timeouts' = MarkStaleTimers(timeouts)
    /\ procs' = MarkStaleProcs(procs)
    /\ Log(<<Alert("info", "Monitoring stopped", 0)>>, Undefined, Undefined)
    /\ UNCHANGED <<captureCount, totalStats, performanceMetrics, videoStream,
                   loadingOverlay, gum>>

\* the stop command
StopMonitoring == stopMonitoring

\* 832-841: the current stream is stopped and forgotten (833-836), then
\* stopMonitoring runs if monitoring is active (838-840); with currentStream
\* already null its own stream branch (655-658) is skipped, so the two
\* together change what stopMonitoring alone changes.
stopAllStreams ==
    IF monitoringActive
    THEN stopMonitoring
    ELSE /\ streams' = StopTracks(streams, currentStream)
         /\ currentStream' = 0
         /\ Log(<< >>, Undefined, Undefined)
         /\ UNCHANGED <<monitoringInterval, monitoringCountdown,
                        monitoringActive, captureCount, totalStats,
                        performanceMetrics, dom, timers, timeouts, gum, procs>>

\* 41-60; the tab classes are not kept
SwitchTab(tabName) ==
    IF tabName # "camera" /\ tabName # "monitoring"
    THEN stopAllStreams
    ELSE /\ Log(<< >>, Undefined, Undefined)
         /\ UNCHANGED <<globals, dom, browser>>

Tabs == {"upload", "camera", "monitoring"}

----------------------------------------------------------------------------
(* Time: the setInterval and setTimeout callbacks.                         *)

TickCap == MaxInterval + 2

Min(a, b) == IF a < b THEN a ELSE b

\* One second passes: every live interval timer becomes due and every
\* pending timeout is one second nearer. All due callbacks run before the
\* next second.
Tick ==
    /\ \E i \in DOMAIN timers : timers[i].alive
       \/ timeouts # << >>
    /\ \A i \in DOMAIN timers : ~(timers[i].alive /\ timers[i].due)
    /\ \A j \in DOMAIN timeouts : timeouts[j].remaining > 0
    /\ timers' = [i \in DOMAIN timers |->
                    IF timers[i].alive THEN [timers[i] EXCEPT !.due = TRUE]
                    ELSE timers[i]]
    /\ timeouts' = [j \in DOMAIN timeouts |->
                      [timeouts[j] EXCEPT !.remaining = @ - 1]]
    /\ Log(<< >>, Undefined, Undefined)
    /\ UNCHANGED <<globals, dom, streams, gum, procs>>

\* 696: the interval callback of timer i runs updateCountdown
TimerFires(i) ==
    /\ timers[i].alive /\ timers[i].due
    /\ (monitoringActive /\ timers[i].countdown <= 0) => Budget(1)
    /\ \E frame \in Frames(monitoringVideo) :
          SetSched(updateCountdown(
              [Sched EXCEPT !.timers[i].due = FALSE,
                            !.timers[i].ticks = Min(@ + 1, TickCap)],
              i, monitoringActive, frame))
    /\ Log(<< >>, Undefined, Undefined)
    /\ UNCHANGED <<currentStream, monitoringInterval, monitoringActive,
                   captureCount, totalStats, performanceMetrics, videoStream,
                   monitoringVideo, loadingOverlay, streams, gum>>

\* A mutation of the re-arm: it is put off while a monitoring capture is
\* being processed.
TimeoutFiresWhenIdle(j) ==
    /\ timeouts[j].remaining = 0
    /\ \A i \in DOMAIN procs : procs[i].kind # "monitoring"
    /\ monitoringActive => Len(timers) < MaxTimers
    /\ SetSched(scheduleNextCapture(
          [Sched EXCEPT !.timeouts = Remove(@, j)],
          timeouts[j].interval, monitoringActive, JpegFile,
          IF timeouts[j].stale THEN "stale-rearm" ELSE "rearm"))
    /\ Log(<< >>, Undefined, Undefined)
    /\ UNCHANGED <<currentStream, monitoringInterval, monitoringActive,
                   captureCount, totalStats, performanceMetrics, videoStream,
                   monitoringVideo, loadingOverlay, streams, gum>>

\* 689: the re-arm timeout j runs scheduleNextCapture(intervalSeconds)
TimeoutFires(j) ==
    /\ timeouts[j].remaining = 0
    /\ monitoringActive => Len(timers) < MaxTimers
    /\ SetSched(scheduleNextCapture(
          [Sched EXCEPT !.timeouts = Remove(@, j)],
          timeouts[j].interval, monitoringActive, JpegFile,
          IF timeouts[j].stale THEN "stale-rearm" ELSE "rearm"))
    /\ Log(<< >>, Undefined, Undefined)
    /\ UNCHANGED <<currentStream, monitoringInterval, monitoringActive,
                   captureCount, totalStats, performanceMetrics, videoStream,
                   monitoringVideo, loadingOverlay, streams, gum>>

----------------------------------------------------------------------------
(* The capture sources and the detection client.                           *)

\* A mutation of the monitoring callback's captureCount++.
captureCountDecrement(count) == count - 1

\* A second mutation of it: the counter advances by 2.
captureCountTwice(count) == count + 2

\* A third mutation of it: the increment is left out.
captureCountKeep(count) == count

\* script_with_api.js:718, captureCount++
captureCountIncrement(count) == count + 1

\* A mutation of foldBatch: of the results of a batch only the last one
\* reaches totalStats.
foldBatchLast(session, kind, results) ==
    [totalStats |-> updateTotalStats(session.totalStats,
                                     batchStats(<<results[Len(results)]>>)),
     captureCount |-> IF kind = "monitoring"
                      THEN captureCountIncrement(session.captureCount)
                      ELSE session.captureCount]

\* The session statistics after the results of one capture source are
\* folded in: updateTotalStats on the batch statistics (288, 570, 744) and,
\* in the monitoring callback alone, captureCount++ (718).
foldBatch(session, kind, results) ==
    [totalStats |-> updateTotalStats(session.totalStats, batchStats(results)),
     captureCount |-> IF kind = "monitoring"
                      THEN captureCountIncrement(session.captureCount)
                      ELSE session.captureCount]

\* 958-960 and 153-162: the instrumented processImageWithAPI counts the call
\* and the original sends the request
IssueCall(pm) == [pm EXCEPT !.apiCalls = @ + 1]

\* 963-967: the instrumented processImageWithAPI after the original resolved
CallResolved(pm) == [pm EXCEPT !.totalImages = @ + 1]

\* 949 computes in IEEE 754 doubles. A positive double is written m * 2^-e
\* as [m |-> the bits of m, most significant first, e |-> e]; Significand
\* is the number of bits a double keeps.
Significand == 53

Zeros(n) == [i \in 1..n |-> 0]

\* bit i of a, counted from the right
BitAt(a, i) == IF i <= Len(a) THEN a[Len(a) + 1 - i] ELSE 0

\* the carry into bit i of a + b: some lower bit j makes one (both bits
\* set) and every bit between passes it on (one bit set)
CarryInto(a, b, i) ==
    IF \E j \in 1..(i - 1) :
           /\ BitAt(a, j) + BitAt(b, j) = 2
           /\ \A k \in (j + 1)..(i - 1) : BitAt(a, k) + BitAt(b, k) >= 1
    THEN 1 ELSE 0

\* a + b, without a leading zero
AddBits(a, b) ==
    LET n == IF Len(a) > Len(b) THEN Len(a) ELSE Len(b)
        top == CarryInto(a, b, n + 1)
        low == [i \in 1..n |->
                   (BitAt(a, n + 1 - i) + BitAt(b, n + 1 - i)
                    + CarryInto(a, b, n + 1 - i)) % 2]
    IN  IF top = 1 THEN <<1>> \o low ELSE low

Times100(a) ==
    AddBits(AddBits(a \o Zeros(6), a \o Zeros(5)), a \o Zeros(2))

RECURSIVE BitsValue(_)
BitsValue(a) ==
    IF a = << >> THEN 0
    ELSE 2 * BitsValue(SubSeq(a, 1, Len(a) - 1)) + a[Len(a)]

\* a, whose first bit is 1, rounded to Significand bits, ties to even; drop
\* is the number of bits given up
RoundBits(a) ==
    IF Len(a) <= Significand THEN [m |-> a, drop |-> 0]
    ELSE LET keep == SubSeq(a, 1, Significand)
             tail == SubSeq(a, Significand + 1, Len(a))
             more == \E k \in 2..Len(tail) : tail[k] = 1
             up == tail[1] = 1 /\ (more \/ keep[Significand] = 1)
         IN  [m |-> IF up THEN AddBits(keep, <<1>>) ELSE keep,
              drop |-> Len(tail)]

\* the doublings of r that bring r / d into [1/2, 1)
RECURSIVE LeadingZeros(_, _)
LeadingZeros(r, d) == IF 2 * r >= d THEN 0 ELSE 1 + LeadingZeros(2 * r, d)

\* bits, followed by the next n bits of the fraction r / d, 0 <= r < d, and
\* what is left
RECURSIVE LongDivision(_, _, _, _)
LongDivision(r, d, n, bits) ==
    IF n = 0 THEN [bits |-> bits, rem |-> r]
    ELSE IF 2 * r >= d
    THEN LongDivision(2 * r - d, d, n - 1, Append(bits, 1))
    ELSE LongDivision(2 * r, d, n - 1, Append(bits, 0))

RECURSIVE Doubled(_, _)
Doubled(r, n) == IF n = 0 THEN r ELSE Doubled(2 * r, n - 1)

\* the double p / c for 0 < p < c
DoubleQuotient(p, c) ==
    LET z == LeadingZeros(p, c)
        q == LongDivision(Doubled(p, z), c, Significand, << >>)
        up == \/ 2 * q.rem > c
              \/ 2 * q.rem = c /\ q.bits[Significand] = 1
    IN  [m |-> IF up THEN AddBits(q.bits, <<1>>) ELSE q.bits,
         e |-> z + Significand]

\* the double x * 100
DoubleTimes100(x) ==
    LET r == RoundBits(Times100(x.m))
    IN  [m |-> r.m, e |-> x.e - r.drop]

\* x.toFixed(2) in hundredths: the integer n with n / 100 nearest to x, the
\* larger of two; floor(x * 100 + 1/2) = floor((200 m + 2^e) / 2^(e + 1))
toFixed2(x) ==
    LET sum == AddBits(Times100(x.m) \o <<0>>, <<1>> \o Zeros(x.e))
    IN  IF Len(sum) <= x.e + 1 THEN 0
        ELSE BitsValue(SubSeq(sum, 1, Len(sum) - (x.e + 1)))

\* 940-954, the successRate of getPerformanceReport: undefined for 'N/A',
\* else the hundredths that ((apiCalls - apiErrors) / apiCalls *
\* 100).toFixed(2) prints, for 0 <= apiErrors <= apiCalls
successRate(pm) ==
    IF pm.apiCalls > 0
    THEN IF pm.apiErrors = 0 THEN Some(10000)
         ELSE IF pm.apiErrors = pm.apiCalls THEN Some(0)
         ELSE LET ratios == {DoubleQuotient(p, c) :
                                p \in {pm.apiCalls - pm.apiErrors},
                                c \in {pm.apiCalls}}
                  percents == {DoubleTimes100(x) : x \in ratios}
              IN  Some(CHOOSE n \in {toFixed2(y) : y \in percents} : TRUE)
    ELSE Undefined

WithoutMaskAlert(text, n) == Alert("warning", text, n)

\* 117-136: processFiles up to the first await of its loop
ProcessFiles(files) ==
    /\ Budget(Len(validFiles(files)))
    /\ IF Len(files) = 0
       THEN /\ Log(<< >>, Undefined, Undefined)
            /\ UNCHANGED <<performanceMetrics, loadingOverlay, procs>>
       ELSE IF Len(validFiles(files)) = 0
       THEN /\ loadingOverlay' = FALSE
            /\ Log(<<Alert("error", "Please select valid image files", 0)>>,
                   Undefined, Undefined)
            /\ UNCHANGED <<performanceMetrics, procs>>
       ELSE /\ loadingOverlay' = TRUE
            /\ performanceMetrics' = IssueCall(performanceMetrics)
            /\ procs' = Append(procs,
                               [Proc("upload", "fetch", Head(validFiles(files)),
                                     Tail(validFiles(files)))
                                   EXCEPT !.batch = files])
            /\ Log(<< >>, Undefined, Undefined)
    /\ UNCHANGED <<currentStream, monitoringInterval, monitoringCountdown,
                   monitoringActive, captureCount, totalStats, videoStream,
                   monitoringVideo, nextCaptureTime, streams,
                   timers, timeouts, gum>>

\* 538-542 and 713-716: the toBlob callback of a camera or monitoring
\* capture up to its await of processImageWithAPI
BlobReady(i) ==
    /\ procs[i].pc = "blob"
    /\ procs' = [procs EXCEPT ![i].pc = "fetch", ![i].fetches = 1]
    /\ performanceMetrics' = IssueCall(performanceMetrics)
    /\ loadingOverlay' = IF procs[i].kind = "camera" THEN TRUE ELSE loadingOverlay
    /\ Log(<< >>, Undefined, Undefined)
    /\ UNCHANGED <<currentStream, monitoringInterval, monitoringCountdown,
                   monitoringActive, captureCount, totalStats, videoStream,
                   monitoringVideo, nextCaptureTime, streams,
                   timers, timeouts, gum>>

\* The continuation of the await of processImageWithAPI in proc i once the
\* call has resolved with value: 137-149 with displayUploadResults
\* (273-327), 544-549 with displayCameraResults (554-602), 718-723 with
\* displayMonitoringResults (728-787). soundAlerts is what the handler reads
\* from #soundAlerts.checked, a box the user ticks and unticks at will. via
\* and request are history: where the value was made and which response
\* the request had met.
Deliver(i, value, via, request, soundAlerts) ==
    LET p == procs[i]
        results == Append(p.results, value)
        folded == IF p.kind = "upload" THEN results ELSE <<value>>
        batch == batchStats(folded)
        more == p.kind = "upload" /\ p.todo # << >>
        session == foldBatch([totalStats |-> totalStats,
                              captureCount |-> captureCount], p.kind, folded)
        warn ==
            CASE p.kind = "upload" ->
                   IF batch.withoutMask > 0 /\ soundAlerts
                   THEN <<WithoutMaskAlert("person(s) detected without mask",
                                           batch.withoutMask)>>
                   ELSE << >>
              [] p.kind = "camera" ->
                   IF batch.withoutMask > 0
                   THEN <<WithoutMaskAlert("person(s) without mask detected",
                                           batch.withoutMask)>>
                   ELSE << >>
              [] OTHER ->
                   IF batch.withoutMask > 0
                   THEN <<WithoutMaskAlert("Monitoring Alert", batch.withoutMask)>>
                   ELSE << >>
        done ==
            IF p.kind = "camera"
            THEN <<Alert("success", "Photo captured and processed", 0)>>
            ELSE << >>
    IN  /\ performanceMetrics' =
              IF more THEN IssueCall(CallResolved(performanceMetrics))
              ELSE CallResolved(performanceMetrics)
        /\ procs' =
              IF more
              THEN [procs EXCEPT ![i] = [p EXCEPT !.pc = "fetch",
                                                  !.file = Head(p.todo),
                                                  !.todo = Tail(p.todo),
                                                  !.results = results,
                                                  !.fetches = 1]]
              ELSE Remove(procs, i)
        /\ totalStats' = IF more THEN totalStats ELSE session.totalStats
        /\ captureCount' = IF more THEN captureCount ELSE session.captureCount
        /\ loadingOverlay' =
              IF ~more /\ p.kind \in {"upload", "camera"} THEN FALSE
              ELSE loadingOverlay
        /\ Log(IF more THEN << >> ELSE warn \o done,
               Some([via |-> via, request |-> request, kind |-> p.kind,
                     stale |-> p.stale, value |-> value]),
               IF more THEN Undefined
               ELSE Some([stats |-> batch, kind |-> p.kind,
                          soundAlerts |-> soundAlerts]))
        /\ UNCHANGED <<currentStream, monitoringInterval, monitoringCountdown,
                       monitoringActive, videoStream, monitoringVideo,
                       nextCaptureTime, streams, timers,
                       timeouts, gum>>

\* The await of processImageWithAPI in proc i throws: the instrumented
\* function counts the error and rethrows (968-971); processFiles reports
\* the file and goes on with the next one (140-148); a toBlob callback ends
\* there, its promise rejected.
Reject(i, request, soundAlerts) ==
    LET p == procs[i]
        failed == <<Alert("error", "Error processing file", 0)>>
        counted == [performanceMetrics EXCEPT !.apiErrors = @ + 1]
        batch == batchStats(p.results)
        fold == p.kind = "upload" /\ p.todo = << >> /\ p.results # << >>
    IN  /\ performanceMetrics' =
              IF p.kind = "upload" /\ p.todo # << >> THEN IssueCall(counted)
              ELSE counted
        /\ procs' =
              IF p.kind = "upload" /\ p.todo # << >>
              THEN [procs EXCEPT ![i] = [p EXCEPT !.pc = "fetch",
                                                  !.file = Head(p.todo),
                                                  !.todo = Tail(p.todo),
                                                  !.fetches = 1]]
              ELSE Remove(procs, i)
        /\ totalStats' =
              IF fold THEN updateTotalStats(totalStats, batch) ELSE totalStats
        /\ loadingOverlay' =
              IF p.kind = "upload" /\ p.todo = << >> THEN FALSE
              ELSE loadingOverlay
        /\ Log(IF p.kind # "upload" THEN << >>
               ELSE IF fold /\ batch.withoutMask > 0 /\ soundAlerts
               THEN failed \o <<WithoutMaskAlert(
                        "person(s) detected without mask", batch.withoutMask)>>
               ELSE failed,
               Some([via |-> "rejected", request |-> request, kind |-> p.kind,
                     stale |-> p.stale, value |-> NoValue(p.file)]),
               IF fold THEN Some([stats |-> batch, kind |-> p.kind,
                                  soundAlerts |-> soundAlerts])
               ELSE Undefined)
        /\ UNCHANGED <<currentStream, monitoringInterval, monitoringCountdown,
                       monitoringActive, captureCount, videoStream,
                       monitoringVideo, nextCaptureTime, streams, timers,
                       timeouts, gum>>

\* how a settled request is named in the history
RequestKind(resp) ==
    IF resp.kind # "json" THEN resp.kind
    ELSE IF ~resp.success THEN "success:false"
    ELSE IF IsDefined(resp.detections) /\ IsDefined(resp.stats) THEN "ok"
    ELSE "malformed"

\* 159-185: the fetch of proc i settles with resp
FetchSettles(i, resp, soundAlerts) ==
    /\ procs[i].pc = "fetch"
    /\ LET r == processImageWithAPI(procs[i].file, resp)
       IN  IF r.outcome = "return"
           THEN Deliver(i, r.value, "api", RequestKind(resp), soundAlerts)
           ELSE IF r.outcome = "throw"
           THEN Reject(i, RequestKind(resp), soundAlerts)
           ELSE IF r.outcome = "retry"
           THEN /\ procs' = [procs EXCEPT ![i].fetches = @ + 1,
                                          ![i].request = RequestKind(resp)]
                /\ Log(<< >>, Undefined, Undefined)
                /\ UNCHANGED <<globals, dom, streams, timers, timeouts, gum>>
           ELSE /\ procs' = [procs EXCEPT ![i].pc = "sim",
                                          ![i].request = RequestKind(resp)]
                /\ Log(<< >>, Undefined, Undefined)
                /\ UNCHANGED <<globals, dom, streams, timers, timeouts, gum>>

\* 192-219: reader.onload and img.onload of the simulation of proc i
SimulationLoads(i, rnd, soundAlerts) ==
    /\ procs[i].pc = "sim"
    /\ procs[i].file.decodable
    /\ Deliver(i, processImageSimulation(procs[i].file, rnd), "sim",
               procs[i].request, soundAlerts)

\* 190-224: the file cannot be read or decoded; neither error event has a
\* handler, so the promise of processImageSimulation never settles
SimulationFails(i) ==
    /\ procs[i].pc = "sim"
    /\ ~procs[i].file.decodable
    /\ procs' = [procs EXCEPT ![i].pc = "hung"]
    /\ Log(<< >>, Undefined, Undefined)
    /\ UNCHANGED <<globals, dom, streams, timers, timeouts, gum>>

----------------------------------------------------------------------------
(* The statistics functions applied on their own, to inputs of every shape. *)

\* detection lists of up to MaxLen entries, foreign labels included
DetectionLists == UNION {[1..k -> [class : ApiClasses]] : k \in 0..MaxLen}

\* 252-270: calculateStatsFromDetections(detections)
CalculateStats(detections) ==
    /\ applied' = [op |-> "calculateStatsFromDetections",
                   detections |-> detections,
                   stats |-> calculateStatsFromDetections(detections)]
    /\ UNCHANGED <<globals, dom, browser, emitted, lastResult, lastBatch, before,
                   delivered>>

\* results as processImageSimulation and processImageWithAPI return them:
\* simulated ones, one of a well-formed answer, one of an answer with no stats
FoldResults ==
    {processImageSimulation(JpegFile, d) : d \in {[n |-> 0, cls |-> <<0>>],
                                                   [n |-> 1, cls |-> <<1, 2>>]}}
    \cup {processImageWithAPI(JpegFile, r).value :
             r \in {WellFormed(<<[class |-> "without_mask"]>>),
                    Response("json", TRUE, Some(<<[class |-> "with_mask"]>>),
                             Undefined)}}

FoldStarts ==
    {[totalStats |-> ZeroTotals, captureCount |-> 0],
     [totalStats |-> [withMask |-> 2, withoutMask |-> 1, incorrectMask |-> 0],
      captureCount |-> 1]}

CaptureKinds == {"upload", "camera", "monitoring"}

\* Three results a, b, c folded into the session start by the handlers of one
\* capture source. An upload batch may hold any number of them (137-146); a
\* camera or a monitoring capture folds its one result (544-546, 716-722),
\* so for these the only grouping is one by one.
FoldBatches(start, kind, a, b, c) ==
    LET one(s, r) == foldBatch(s, kind, <<r>>)
        singly == one(one(one(start, a), b), c)
    IN  /\ applied' =
              [op |-> "foldBatch", kind |-> kind, start |-> start,
               results |-> <<a, b, c>>,
               singly |-> singly,
               reordered |-> {one(one(one(start, c), a), b),
                              one(one(one(start, b), c), a),
                              one(one(one(start, c), b), a)},
               grouped |->
                   IF kind = "upload"
                   THEN {foldBatch(start, kind, <<a, b, c>>),
                         foldBatch(foldBatch(start, kind, <<a, b>>), kind, <<c>>),
                         foldBatch(foldBatch(start, kind, <<a>>), kind, <<b, c>>),
                         foldBatch(foldBatch(start, kind, <<c, a>>), kind, <<b>>)}
                   ELSE {singly}]
        /\ UNCHANGED <<globals, dom, browser, emitted, lastResult, lastBatch,
                       before, delivered>>

----------------------------------------------------------------------------
(* The server check at page load and the export of the session statistics, *)
(* script_with_api.js:24-38 and 849-884. Both show an alert and write      *)
(* nothing else of the page.                                               *)

\* 24-38: what the fetch of /health, sent by checkServerConnection at page
\* load (20, 26), settles with: a healthy server with its model loaded, any
\* other body, or an error of fetch or of response.json()
HealthOutcomes == {"healthy", "degraded", "error"}

\* 24-38: checkServerConnection after its await
ServerChecked(outcome) ==
    /\ gum.health > 0
    /\ gum' = [gum EXCEPT !.health = 0]
    /\ Log(<<CASE outcome = "healthy" ->
                   Alert("success", "Server connected successfully. Model loaded.", 0)
              [] outcome = "degraded" ->
                   Alert("warning", "Server connected but model not loaded.", 0)
              [] OTHER ->
                   Alert("warning",
                         "Could not connect to detection server. Using simulation mode.",
                         0)>>,
           Undefined, Undefined)
    /\ UNCHANGED <<globals, dom, streams, timers, timeouts, procs>>

\* 849-884: downloadResults(format) reads totalStats and captureCount into
\* a file for download and reports its name
ExportFormats == {"json", "csv"}

DownloadResults(format) ==
    /\ Log(<<Alert("success",
                   IF format = "json"
                   THEN "Results exported as mask_detection_results_<date>.json"
                   ELSE "Results exported as mask_detection_results_<date>.csv",
                   0)>>,
           Undefined, Undefined)
    /\ UNCHANGED <<globals, dom, browser>>

----------------------------------------------------------------------------
(* Specifications. Spec is the whole page, every handler of it;            *)
(* SpecCapture is the page without the server check and the export, with   *)
(* the inputs of the detection client drawn from samples; SpecSched is the *)
(* stream and scheduler side alone with every interval; SpecDetect is the  *)
(* upload and camera side alone with every response and the extreme        *)
(* outcomes of the simulation's random draws.                              *)

\* sample inputs of SpecCapture: one well-formed answer with an unmasked
\* face, one failed request, a draw of one detection and a draw of two
SampleResponses ==
    {WellFormed(<<[class |-> "without_mask"]>>),
     Response("neterr", FALSE, Undefined, Undefined)}

SampleDraws == {[n |-> 0, cls |-> <<0>>], [n |-> 1, cls |-> <<0, 1>>]}

SampleBatches == {<<JpegFile>>, <<JpegFile, JpegFile>>, <<TextFile>>}

SampleIntervals == {1}

NextCapture ==
    \/ StartCamera
    \/ CameraGranted
    \/ CameraDenied
    \/ StopCamera
    \/ CapturePhoto
    \/ StartMonitoring
    \/ \E n \in SampleIntervals : MonitoringGranted(n)
    \/ MonitoringDenied
    \/ StopMonitoring
    \/ \E tab \in Tabs : SwitchTab(tab)
    \/ Tick
    \/ \E i \in DOMAIN timers : TimerFires(i)
    \/ \E j \in DOMAIN timeouts : TimeoutFires(j)
    \/ \E files \in SampleBatches : ProcessFiles(files)
    \/ \E i \in DOMAIN procs : BlobReady(i)
    \/ \E i \in DOMAIN procs, resp \in SampleResponses, snd \in BOOLEAN :
          FetchSettles(i, resp, snd)
    \/ \E i \in DOMAIN procs, rnd \in SampleDraws, snd \in BOOLEAN :
          SimulationLoads(i, rnd, snd)
    \/ \E i \in DOMAIN procs : SimulationFails(i)

SpecCapture == Init /\ [][NextCapture]_vars

\* every handler of the page
Next ==
    \/ NextCapture
    \/ \E outcome \in HealthOutcomes : ServerChecked(outcome)
    \/ \E format \in ExportFormats : DownloadResults(format)

Spec == Init /\ [][Next]_vars

NextSched ==
    \/ StartCamera
    \/ CameraGranted
    \/ CameraDenied
    \/ StopCamera
    \/ StartMonitoring
    \/ \E n \in Intervals : MonitoringGranted(n)
    \/ MonitoringDenied
    \/ StopMonitoring
    \/ \E tab \in Tabs : SwitchTab(tab)
    \/ Tick
    \/ \E i \in DOMAIN timers : TimerFires(i)
    \/ \E j \in DOMAIN timeouts : TimeoutFires(j)

SpecSched == Init /\ [][NextSched]_vars

\* the draws of SpecDetect: the least and the greatest number of detections,
\* each with every class
ExtremeDraws ==
    {d \in SimDraws : /\ d.n \in {0, SimSpan - 1}
                      /\ \A i \in DOMAIN d.cls : d.cls[i] = d.cls[1]}

NextDetect ==
    \/ StartCamera
    \/ CameraGranted
    \/ CapturePhoto
    \/ \E files \in FileBatches : ProcessFiles(files)
    \/ \E i \in DOMAIN procs : BlobReady(i)
    \/ \E i \in DOMAIN procs, resp \in Responses, snd \in BOOLEAN :
          FetchSettles(i, resp, snd)
    \/ \E i \in DOMAIN procs, rnd \in ExtremeDraws, snd \in BOOLEAN :
          SimulationLoads(i, rnd, snd)
    \/ \E i \in DOMAIN procs : SimulationFails(i)

SpecDetect == Init /\ [][NextDetect]_vars

\* script.js:330-352, createCroppedFaces for one detection. Images and
\* boxes in whole pixels; an image is one pixel or MaxDim pixels wide and
\* high, a box may start before the image and end after it.
Images == [width : {1, MaxDim}, height : {1, MaxDim}]
Boxes == [x : (-1)..MaxDim, y : (-1)..MaxDim,
          width : 1..MaxDim, height : 1..MaxDim]

Max(a, b) == IF a > b THEN a ELSE b

\* the part of the box that lies on the image: what drawImage (script.js:342)
\* finds to copy, the rest of the source rectangle holding no pixel
onImage(img, bbox) ==
    [width |-> Max(0, Min(img.width, bbox.x + bbox.width) - Max(0, bbox.x)),
     height |-> Max(0, Min(img.height, bbox.y + bbox.height) - Max(0, bbox.y))]

\* script.js:333-342: the canvas of the crop has the size of the box (338,
\* 339), and drawImage paints on it what the box holds of the image
createCroppedFaces(img, bbox) ==
    [canvas |-> [width |-> bbox.width, height |-> bbox.height],
     painted |-> onImage(img, bbox)]

CreateCroppedFaces(img, bbox) ==
    /\ applied' = [op |-> "createCroppedFaces", img |-> img, bbox |-> bbox,
                   crop |-> createCroppedFaces(img, bbox)]
    /\ UNCHANGED <<globals, dom, browser, emitted, lastResult, lastBatch, before,
                   delivered>>

\* the statistics and cropping functions on their own
NextPure ==
    \/ \E img \in Images, bbox \in Boxes : CreateCroppedFaces(img, bbox)
    \/ \E detections \in DetectionLists : CalculateStats(detections)
    \/ \E start \in FoldStarts, kind \in CaptureKinds,
          a \in FoldResults, b \in FoldResults, c \in FoldResults :
          FoldBatches(start, kind, a, b, c)

SpecPure == Init /\ [][NextPure]_vars

----------------------------------------------------------------------------
(* Claims.                                                                 *)

Started == <<Alert("success", "Automatic monitoring started", 0)>>

Stopped == <<Alert("info", "Monitoring stopped", 0)>>

Warned == \E k \in DOMAIN emitted : emitted[k].type = "warning"

Live == {s \in DOMAIN streams : streams[s].live}

FailedRequests == {"neterr", "http", "success:false", "badjson"}

\* C1: every countdown triggers its capture on the tick that follows
\* `interval` seconds of counting, not earlier, and once only; a countdown
\* that stopMonitoring has stopped triggers no capture afterwards.
C1_CaptureOnNthTickOnce ==
    \A i \in DOMAIN timers :
        /\ timers[i].caps <= 1
        /\ timers[i].caps >= 1 => timers[i].ticks >= timers[i].interval
        /\ (timers[i].ticks >= timers[i].interval /\ ~timers[i].stale)
              => timers[i].caps >= 1
        /\ timers[i].staleCaps = 0

\* C2: no timer created before a stopMonitoring triggers a capture or starts
\* a countdown afterwards, and right after the stop the stream is released
\* and the countdown display is idle.
C2_StopCancelsEveryTimer ==
    /\ \A i \in DOMAIN timers :
          timers[i].origin # "stale-rearm" /\ timers[i].staleCaps = 0
    /\ emitted = Stopped =>
          currentStream = 0 /\ monitoringVideo = 0 /\ nextCaptureTime = Idle

\* C3: at most one acquired stream is live.
C3_SingleLiveStream == Cardinality(Live) <= 1

\* C4 as claimed: captureCount never decreases.
C4_NeverDecreases == captureCount >= before.captureCount

\* C4 as amended: captureCount decreases only when a startMonitoring has
\* acquired its stream, and then to 0.
C4_DecreasesOnlyAtStart ==
    captureCount < before.captureCount => captureCount = 0 /\ emitted = Started

C4_Witness ==
    /\ emitted = Started
    /\ before.captureCount > 0
    /\ captureCount = 0

\* C5 as claimed: every batch folded into the session adds 1 to captureCount.
C5_EveryFoldCounts ==
    IsDefined(lastBatch) => captureCount = before.captureCount + 1

\* C5 as amended: the fold of a scheduled monitoring capture adds exactly 1
\* to captureCount, whatever the number of detections; the fold of an upload
\* batch or of a manual snapshot leaves it unchanged; nothing else adds.
C5_MonitoringFoldCounts ==
    /\ IsDefined(lastBatch) =>
          captureCount = before.captureCount
                         + (IF lastBatch[1].kind = "monitoring" THEN 1 ELSE 0)
    /\ captureCount > before.captureCount =>
          IsDefined(lastBatch) /\ lastBatch[1].kind = "monitoring"

C5_Witness ==
    /\ IsDefined(lastBatch)
    /\ lastBatch[1].kind = "monitoring"
    /\ Len(lastResult[1].value.detections[1]) = 2
    /\ captureCount = 2

\* C6: totalStats changes only by the field-wise addition of one folded
\* batch of non-negative counts, so no field is negative or ever shrinks.
C6_TotalsAreAdditive ==
    /\ totalStats # before.totalStats => IsDefined(lastBatch)
    /\ IsDefined(lastBatch) =>
          /\ lastBatch[1].stats.withMask >= 0
          /\ lastBatch[1].stats.withoutMask >= 0
          /\ lastBatch[1].stats.incorrectMask >= 0
          /\ totalStats.withMask =
                before.totalStats.withMask + lastBatch[1].stats.withMask
          /\ totalStats.withoutMask =
                before.totalStats.withoutMask + lastBatch[1].stats.withoutMask
          /\ totalStats.incorrectMask =
                before.totalStats.incorrectMask + lastBatch[1].stats.incorrectMask
    /\ totalStats.withMask >= before.totalStats.withMask
    /\ totalStats.withoutMask >= before.totalStats.withoutMask
    /\ totalStats.incorrectMask >= before.totalStats.incorrectMask
    /\ before.totalStats.withMask >= 0
    /\ before.totalStats.withoutMask >= 0
    /\ before.totalStats.incorrectMask >= 0

C6_Witness ==
    /\ IsDefined(lastBatch)
    /\ before.totalStats.withoutMask > 0
    /\ lastBatch[1].stats.withoutMask > 0
    /\ lastBatch[1].stats.withMask > 0
    /\ totalStats.withoutMask > before.totalStats.withoutMask

\* C7: a folded batch with an unmasked face emits a warning alert, in every
\* mode and with the sound alerts box ticked or not.
C7_UnmaskedAlwaysWarns ==
    (IsDefined(lastBatch) /\ lastBatch[1].stats.withoutMask > 0) => Warned

\* C8: after a failed request processImageWithAPI resolves: no call is left
\* on a promise that will never settle, and none rejects to its caller;
\* what it resolves with is a value the simulation made, of 1 to 4
\* detections, each of a known class.
C8_FailureFallsBack ==
    /\ \A i \in DOMAIN procs : procs[i].pc # "hung"
    /\ (IsDefined(lastResult) /\ lastResult[1].request \in FailedRequests) =>
          /\ lastResult[1].via = "sim"
          /\ IsDefined(lastResult[1].value.detections)
          /\ Len(lastResult[1].value.detections[1]) \in 1..SimSpan
          /\ \A k \in DOMAIN lastResult[1].value.detections[1] :
                lastResult[1].value.detections[1][k].class \in KnownClasses

\* C9: a value made by the simulation carries a field that a value made
\* from a backend answer does not have.
C9_SyntheticIsMarked ==
    (IsDefined(lastResult) /\ lastResult[1].via = "sim") =>
        DOMAIN lastResult[1].value
            # DOMAIN processImageWithAPI(JpegFile, WellFormed(<< >>)).value

\* C10: a success answer that lacks detections or stats is answered by the
\* simulation, never by a value without detections or stats.
C10_MalformedFallsBack ==
    (IsDefined(lastResult) /\ lastResult[1].request = "malformed") =>
        /\ lastResult[1].via = "sim"
        /\ IsDefined(lastResult[1].value.detections)
        /\ IsDefined(lastResult[1].value.stats)

\* the detections of D whose class is none of the three known ones
unknownCount(D) == Cardinality({i \in DOMAIN D : D[i].class \notin KnownClasses})

classCount(D, c) == Cardinality({i \in DOMAIN D : D[i].class = c})

\* C11: for every detection list D the three counts of
\* calculateStatsFromDetections(D) are the numbers of detections of each
\* known class, so with the number of detections of a foreign class they add
\* up to the length of D, and a foreign class adds to none of the three.
C11_CountsPartition ==
    applied.op = "calculateStatsFromDetections" =>
        /\ applied.stats.with_mask + applied.stats.without_mask
             + applied.stats.mask_weared_incorrect
             + unknownCount(applied.detections) = Len(applied.detections)
        /\ applied.stats.with_mask = classCount(applied.detections, "with_mask")
        /\ applied.stats.without_mask =
              classCount(applied.detections, "without_mask")
        /\ applied.stats.mask_weared_incorrect =
              classCount(applied.detections, "mask_weared_incorrect")

C11_Witness ==
    /\ applied.op = "calculateStatsFromDetections"
    /\ Len(applied.detections) = 3
    /\ unknownCount(applied.detections) = 2
    /\ applied.stats.without_mask = 1

\* C12: three results folded into the same session give the same totals and
\* the same captureCount in every order, and for an upload in every grouping
\* into batches.
C12_FoldIsGroupingFree ==
    applied.op = "foldBatch" =>
        /\ applied.reordered = {applied.singly}
        /\ applied.grouped = {applied.singly}

C12_Witness ==
    /\ applied.op = "foldBatch"
    /\ applied.kind = "upload"
    /\ applied.start.captureCount = 1
    /\ applied.results[1] # applied.results[2]
    /\ applied.results[2] # applied.results[3]
    /\ applied.singly.totalStats.withoutMask = 3
    /\ applied.grouped = {applied.singly}

MonitoringFailed == <<Alert("error", "Error starting monitoring", 0)>>

CameraFailed == <<Alert("error", "Error accessing camera", 0)>>

\* the step settles a getUserMedia promise of the named mode with no stream
Fails(mode) == gum'[mode] < gum[mode] /\ streams' = streams

\* C13: a getUserMedia that fails in startMonitoring leaves monitoringActive
\* false, one that fails in startCamera leaves it as it was; either creates
\* no timer, leaves captureCount and currentStream alone and shows an error.
C13_FailedStartStaysStopped ==
    [][/\ Fails("monitoring") =>
             /\ monitoringActive' = FALSE
             /\ emitted' = MonitoringFailed
       /\ Fails("camera") =>
             /\ monitoringActive' = monitoringActive
             /\ emitted' = CameraFailed
       /\ (Fails("monitoring") \/ Fails("camera")) =>
             /\ Len(timers') = Len(timers)
             /\ timeouts' = timeouts
             /\ captureCount' = captureCount
             /\ currentStream' = currentStream]_vars

C13_Witness ==
    /\ emitted = MonitoringFailed
    /\ ~monitoringActive
    /\ timers = << >>
    /\ currentStream = 0
    /\ captureCount = before.captureCount

AliveTimers == {i \in DOMAIN timers : timers[i].alive}

\* C14: a stopMonitoring that runs while monitoringActive is false changes
\* neither monitoringActive, nor which timers are alive, nor captureCount,
\* nor totalStats, nor the streams and the reference to the current one.
C14_StopWhenStoppedIsNoOp ==
    [][(~monitoringActive /\ emitted' = Stopped) =>
          /\ monitoringActive' = monitoringActive
          /\ AliveTimers' = AliveTimers
          /\ captureCount' = captureCount
          /\ totalStats' = totalStats
          /\ streams' = streams
          /\ currentStream' = currentStream]_vars

\* the files of the upload p that have been forwarded or wait their turn
Forwarded(p) ==
    [k \in 1..Len(p.results) |-> p.results[k].file] \o <<p.file>> \o p.todo

\* C15: the files an upload forwards, one at a time, are the image files of
\* its batch, each once and no other, and no image file is left waiting
\* behind a call that will never settle.
C15_ImagesForwardedOnce ==
    \A i \in DOMAIN procs :
        procs[i].kind = "upload" =>
            /\ Forwarded(procs[i]) = validFiles(procs[i].batch)
            /\ procs[i].pc = "hung" => procs[i].todo = << >>

\* C16: a processFiles call that skips a file whose type is not an image
\* shows an error, also when it goes on with the image files of the batch.
C16_SkippedFileIsReported ==
    [][(/\ Len(procs') > Len(procs)
        /\ procs'[Len(procs')].kind = "upload"
        /\ validFiles(procs'[Len(procs')].batch) # procs'[Len(procs')].batch)
          => \E k \in DOMAIN emitted' : emitted'[k].type = "error"]_vars

\* C17: capturePhoto takes a frame, and so issues a detection, only while
\* currentStream is a live stream that startCamera acquired.
C17_SnapshotNeedsCameraStream ==
    [][(/\ Len(procs') > Len(procs)
        /\ procs'[Len(procs')].kind = "camera")
          => /\ currentStream # 0
             /\ streams[currentStream].live
             /\ streams[currentStream].by = "camera"]_vars

\* a /detect request of a call in flight, or of the call that has just
\* resolved, has failed
SomeRequestFailed ==
    \/ \E i \in DOMAIN procs : procs[i].request \in FailedRequests
    \/ IsDefined(lastResult) /\ lastResult[1].request \in FailedRequests

\* C18: once a /detect request has failed apiErrors is positive and the
\* reported success rate is below 100%.
C18_FailuresAreCounted ==
    SomeRequestFailed =>
        /\ performanceMetrics.apiErrors >= 1
        /\ successRate(performanceMetrics) # Some(10000)

\* C19: while monitoring is active and was not stopped in between, a
\* countdown triggers one capture, at its expiry and not again, and no
\* capture falls into the 2 seconds of a pending re-arm.
C19_OneCapturePerPeriod ==
    monitoringActive =>
        /\ \A i \in DOMAIN timers :
              ~timers[i].stale =>
                  /\ timers[i].caps <= 1
                  /\ timers[i].caps = 1 => timers[i].ticks = timers[i].interval
        /\ Cardinality({j \in DOMAIN timeouts : ~timeouts[j].stale}) <= 1

\* C20: the result of a monitoring capture that was in flight when
\* stopMonitoring ran is folded like any other: captureCount goes up by 1 and
\* the class counts of the result are added to totalStats.
C20_InFlightResultIsApplied ==
    (/\ IsDefined(lastBatch)
     /\ lastBatch[1].kind = "monitoring"
     /\ lastResult[1].stale) =>
        /\ captureCount = before.captureCount + 1
        /\ totalStats = updateTotalStats(before.totalStats, lastBatch[1].stats)
        /\ IsDefined(lastResult[1].value.stats) =>
              lastBatch[1].stats = batchStats(<<lastResult[1].value>>)

C20_Witness ==
    /\ IsDefined(lastBatch)
    /\ lastBatch[1].kind = "monitoring"
    /\ lastResult[1].stale
    /\ ~monitoringActive
    /\ lastBatch[1].stats.withoutMask > 0
    /\ captureCount = before.captureCount + 1
    /\ totalStats # before.totalStats

\* the class counts of the results that upload batches in progress hold and
\* have not folded yet
RECURSIVE Unfolded(_)
Unfolded(ps) ==
    IF ps = << >> THEN ZeroTotals
    ELSE LET rest == Unfolded(Tail(ps))
             held == IF Head(ps).kind = "upload"
                     THEN batchStats(Head(ps).results) ELSE ZeroTotals
         IN  [withMask |-> rest.withMask + held.withMask,
              withoutMask |-> rest.withoutMask + held.withoutMask,
              incorrectMask |-> rest.incorrectMask + held.incorrectMask]

\* C21: in every state totalStats and the results that batches in progress
\* still hold add up, field by field, to the class counts of all results
\* delivered so far, in whatever order the calls completed; with nothing in
\* progress totalStats is that sum.
C21_NoLostUpdate ==
    /\ totalStats.withMask + Unfolded(procs).withMask = delivered.withMask
    /\ totalStats.withoutMask + Unfolded(procs).withoutMask
          = delivered.withoutMask
    /\ totalStats.incorrectMask + Unfolded(procs).incorrectMask
          = delivered.incorrectMask
    /\ procs = << >> => totalStats = delivered

C21_Witness ==
    /\ procs = << >>
    /\ performanceMetrics.totalImages = 2
    /\ captureCount = 1
    /\ IsDefined(lastBatch)
    /\ lastBatch[1].kind = "upload"
    /\ totalStats = delivered
    /\ totalStats.withoutMask + totalStats.withMask >= 2

\* monitoring captures whose detection has not completed
MonitoringInFlight ==
    {i \in DOMAIN procs : procs[i].kind = "monitoring" /\ procs[i].pc = "fetch"}

\* C22: a re-arm timeout whose 2 seconds are over can run whatever
\* detection calls are still in flight (the guard is only the timer bound
\* of the exploration), so a second capture can be triggered while the
\* first is still being processed.
C22_RearmDoesNotWait ==
    \A j \in DOMAIN timeouts :
        (/\ timeouts[j].remaining = 0
         /\ monitoringActive => Len(timers) < MaxTimers)
            => ENABLED TimeoutFires(j)

\* two detections of one monitoring session in flight: the first countdown
\* and its re-armed successor have each triggered one capture
C22_Witness ==
    /\ monitoringActive
    /\ Cardinality(MonitoringInFlight) = 2
    /\ Len(timers) = 2
    /\ timers[1].origin = "" /\ timers[1].caps = 1
    /\ timers[2].origin = "rearm" /\ timers[2].caps = 1
    /\ \A i \in DOMAIN procs : ~procs[i].stale

\* C23: no call of processImageWithAPI has sent more than one request to
\* /detect: a call whose request is pending, or failed and left the call in
\* the local fallback (running or never settling), has sent exactly one,
\* and a capture that has not made its call yet has sent none.
C23_AtMostOneRequest ==
    \A i \in DOMAIN procs :
        /\ procs[i].fetches <= 1
        /\ procs[i].pc \in {"fetch", "sim", "hung"} => procs[i].fetches = 1
        /\ procs[i].pc = "blob" => procs[i].fetches = 0

\* a call in its local fallback after its one request has failed
C23_Witness ==
    \E i \in DOMAIN procs :
        /\ procs[i].pc = "sim"
        /\ procs[i].request \in FailedRequests
        /\ procs[i].fetches = 1

\* C24: the crop of a box that reaches outside the image has the width and
\* the height of the part of the box that lies on the image (any size will
\* do for a box that holds nothing of the image).
C24_CropIsClipped ==
    (/\ applied.op = "createCroppedFaces"
     /\ applied.crop.painted.width > 0
     /\ applied.crop.painted.height > 0)
        => applied.crop.canvas = applied.crop.painted

\* C25: at most one countdown loop is alive, and a live one is the interval
\* timer that monitoringCountdown refers to.
C25_OneCountdownLoop ==
    /\ Cardinality(AliveTimers) <= 1
    /\ \A i \in AliveTimers : monitoringCountdown = i

\* C26: every upload batch in progress is waiting for an event that will
\* come (the settling of its request, or the loading of the file in the
\* fallback), so that it goes on to hide the loading overlay; none is
\* suspended on a promise that nothing will ever settle.
C26_BatchCanFinish ==
    \A i \in DOMAIN procs :
        procs[i].kind = "upload" =>
            /\ procs[i].pc \in {"fetch", "sim"}
            /\ ENABLED (\/ \E resp \in Responses, soundAlerts \in BOOLEAN :
                              FetchSettles(i, resp, soundAlerts)
                        \/ \E rnd \in ExtremeDraws, soundAlerts \in BOOLEAN :
                              SimulationLoads(i, rnd, soundAlerts)
                        \/ SimulationFails(i))

\* C27: a capture that was triggered before a stopMonitoring and completes
\* while monitoring is active again does not count toward captureCount of
\* the session now running.
C27_OldCaptureNotCounted ==
    (/\ monitoringActive
     /\ IsDefined(lastResult)
     /\ lastResult[1].kind = "monitoring"
     /\ lastResult[1].stale)
        => captureCount = before.captureCount

\* C28: when the handling of a manual camera capture with without_mask > 0
\* finishes, the alert badge on display is the without-mask warning.
C28_WarningStaysDisplayed ==
    (/\ IsDefined(lastBatch)
     /\ lastBatch[1].kind = "camera"
     /\ lastBatch[1].stats.withoutMask > 0)
        => \E k \in DOMAIN alertBadges(<< >>, emitted) :
              alertBadges(<< >>, emitted)[k].type = "warning"

\* C29: while monitoringActive is true, currentStream refers to a stream
\* that was acquired for monitoring and whose tracks are not stopped.
C29_ActiveHoldsItsStream ==
    monitoringActive =>
        /\ currentStream # 0
        /\ streams[currentStream].live
        /\ streams[currentStream].by = "monitoring"

\* C30: the loading overlay is visible whenever an upload batch or a manual
\* camera capture is being processed (its processImageWithAPI call has been
\* made and has not settled).
C30_OverlayWhileProcessing ==
    (\E i \in DOMAIN procs :
        /\ procs[i].kind \in {"upload", "camera"}
        /\ procs[i].pc \in {"fetch", "sim"})
        => loadingOverlay

====
